---- MODULE Spec2Model ----
(***************************************************************************)
(* TracksManager: the track list controller (TracksList), its delete       *)
(* confirmation dialog, and the remote track service it talks to.          *)
(*                                                                         *)
(* Every React handler is one action; the re-render and the effects that   *)
(* follow it (the fetch effect of TracksList) are part of the action.      *)
(* An awaited remote call splits a handler in two: the part before the     *)
(* await puts a request into net, the continuation runs when the request   *)
(* is delivered (or fails).  The remote service is the environment: it     *)
(* keeps the stored tracks in db and answers a request in its own step.    *)
(***************************************************************************)
EXTENDS Integers, Sequences, FiniteSets, TLC

(* ------------------------------ bounds --------------------------------- *)
\* ids the remote service can hand out: 1..MaxId
MaxId == 4
\* page size of the list query; the program asks for 10 per page, the model
\* scales it down so that a handful of tracks spans several pages
Limit == 2
\* requests that may be outstanding at once
MaxInFlight == 2
\* refreshTrigger is only ever incremented; the model stops at this value
MaxRefresh == 1
\* Previous stays enabled below page 1; the model stops at this page
MinPage == 0
\* the pages a run of the parameter-change operation may start from: 1..MaxPage
MaxPage == 3

(* ----------------------------- constants ------------------------------- *)
NoId == 0
NoError == "null"
FetchError == "Failed to fetch tracks"
DeleteError == "Failed to delete track. Please try again."
BulkDeleteError == "Failed to delete selected tracks. Please try again."
CreateRequired == "Track title and artist are required"
EditRequired == "Title and artist are required"
FileTypeError == "File must be mp3 or wav"
FileSizeError == "File size must be less than 10MB"
\* e.message of a rejected create, update or upload call
RequestError == "Request failed"
\* the largest audio file the dialogs accept, in bytes
MaxFileSize == 10 * 1024 * 1024

Ids == 1..MaxId
Titles == {"t0", "t1"}

VARIABLES
    tracks,               \* TracksList: the loaded collection, a sequence
    paginationMeta,       \* [total, totalPages]
    isLoading,
    error,
    selectedTrackIds,     \* a sequence of ids, as in the code
    isConfirmDialogOpen,
    confirmAction,        \* the closure stored by handleDeleteTrack/handleBulkDelete
    playingTrackId,
    params,               \* the query parameters
    refreshTrigger,
    createModal,          \* createModal.isOpen
    editModal,            \* editModal.isOpen
    currentTrack,         \* the track handed to the edit dialog
    createForm,           \* CreateTrackModal: form
    createError,          \* CreateTrackModal: error
    editForm,             \* EditTrackModal: form
    editError,            \* EditTrackModal: error
    isDeletedFile,        \* EditTrackModal: isDeletedFile
    net,                  \* remote calls that have not returned yet, in issue order
    db,                   \* remote service: the stored tracks
    nextId                \* remote service: the next id to hand out

\* the two dialogs: the modal flags, the edited track and the dialogs' own state
modalVars == <<createModal, editModal, currentTrack, createForm, createError,
               editForm, editError, isDeletedFile>>

vars == <<tracks, paginationMeta, isLoading, error, selectedTrackIds,
          isConfirmDialogOpen, confirmAction, playingTrackId, params,
          refreshTrigger, modalVars, net, db, nextId>>

(* ------------------------------ helpers -------------------------------- *)
Max(a, b) == IF a >= b THEN a ELSE b
Min(a, b) == IF a <= b THEN a ELSE b

\* Array.prototype.includes
Includes(s, x) == \E i \in DOMAIN s : s[i] = x

\* tracks.map((track) => track.id)
MapIds(s) == [i \in DOMAIN s |-> s[i].id]

IdSet(s) == {s[i].id : i \in DOMAIN s}
ElemSet(s) == {s[i] : i \in DOMAIN s}

RemoveAt(s, i) == SubSeq(s, 1, i - 1) \o SubSeq(s, i + 1, Len(s))

(* ------------------------ the remote service --------------------------- *)
\* a track record; the stored tracks have the artist "a0" unless a create or an
\* update gave them another
Track(id, title, audioFile) ==
    [id |-> id, title |-> title, artist |-> "a0", audioFile |-> audioFile]
\* currentTrack before the first edit (undefined)
NoTrack == Track(NoId, "", FALSE)

RECURSIVE AscSeq(_)
AscSeq(S) ==
    IF S = {} THEN <<>>
    ELSE LET m == CHOOSE x \in S : \A y \in S : x <= y
         IN  <<m>> \o AscSeq(S \ {m})

Reverse(s) == [i \in DOMAIN s |-> s[Len(s) + 1 - i]]

DbTrack(id) == CHOOSE t \in db : t.id = id
DbIds == {t.id : t \in db}

\* GET tracks?page=&limit=&search=&sort=&order=: the stored tracks that match
\* the search term, ordered, cut into pages of q.limit
Matching(q) == {t \in db : q.search = "" \/ t.title = q.search}

ListResponse(q) ==
    LET m     == Matching(q)
        asc   == AscSeq({t.id : t \in m})
        ids   == IF q.order = "asc" THEN asc ELSE Reverse(asc)
        total == Cardinality(m)
        from  == (q.page - 1) * q.limit + 1
        to    == Min(q.page * q.limit, total)
    IN  [ok         |-> q.page >= 1,
         data       |-> IF q.page >= 1
                        THEN [i \in 1..Max(0, to - from + 1) |-> DbTrack(ids[from + i - 1])]
                        ELSE <<>>,
         total      |-> total,
         totalPages |-> (total + q.limit - 1) \div q.limit]

NoResponse == [ok |-> FALSE, data |-> <<>>, total |-> 0, totalPages |-> 0]

(* ------------------------------ requests ------------------------------- *)
InitialParams ==
    [search |-> "", sort |-> "title", order |-> "asc", genre |-> "",
     artist |-> "", page |-> 1, limit |-> Limit, totalPages |-> 1]

NoConfirm ==
    [kind |-> "noop", id |-> NoId, tracks |-> <<>>, selectedTrackIds |-> <<>>,
     page |-> 1]

\* audioFile: null in a form
NoFile == [type |-> "", size |-> 0]

\* the form of both dialogs: the title, the artist and the attached audio file
EmptyForm == [title |-> "", artist |-> "", audioFile |-> NoFile]

\* a remote call that has not returned, with what its continuation captured:
\* form and query are the dialog's form and the controller's params of the
\* render the handler ran in, track is the record a former response returned,
\* live tells whether the dialog that made the call is still mounted
Request(kind, query, id, ids, empty, page) ==
    [kind |-> kind, stage |-> "sent", query |-> query, id |-> id, ids |-> ids,
     empty |-> empty, page |-> page, resp |-> NoResponse,
     form |-> EmptyForm, track |-> NoTrack, live |-> TRUE]

\* getTracks(query): the query string is built from params before the await
ListRequest(p) == Request("list", p, NoId, <<>>, FALSE, p.page)

(* --------------------------- TracksList -------------------------------- *)
\* a parameter merge without the trailing page: 1, i.e. {...prev, ...newParams}
mergeParams(prev, newParams) ==
    [f \in DOMAIN prev |->
        IF f \in DOMAIN newParams THEN newParams[f] ELSE prev[f]]

\* the updater of handleSearchParams: spread prev, spread newParams, page: 1
handleSearchParams(prev, newParams) ==
    [f \in DOMAIN prev |->
        IF f = "page" THEN 1
        ELSE IF f \in DOMAIN newParams THEN newParams[f]
        ELSE prev[f]]

\* the updater of handlePageChange
handlePageChange(prev, newPage) == [prev EXCEPT !.page = newPage]

\* the first, synchronous part of fetchTracks, run by the fetch effect
\* whenever params or refreshTrigger changed in the render
fetchTracksAs(n, req) ==
    /\ Len(n) < MaxInFlight
    /\ isLoading' = TRUE
    /\ error' = NoError
    /\ net' = Append(n, req)

fetchTracks(n, p) == fetchTracksAs(n, ListRequest(p))

Init ==
    /\ tracks = <<>>
    /\ paginationMeta = [total |-> 0, totalPages |-> 0]
    /\ isLoading = TRUE
    /\ error = NoError
    /\ selectedTrackIds = <<>>
    /\ isConfirmDialogOpen = FALSE
    /\ confirmAction = NoConfirm
    /\ playingTrackId = NoId
    /\ params = InitialParams
    /\ refreshTrigger = 0
    /\ createModal = FALSE
    /\ editModal = FALSE
    /\ currentTrack = NoTrack
    /\ createForm = EmptyForm
    /\ createError = NoError
    /\ editForm = EmptyForm
    /\ editError = NoError
    /\ isDeletedFile = FALSE
    /\ net = <<ListRequest(InitialParams)>>
    /\ db = {Track(1, "t0", TRUE), Track(2, "t0", FALSE), Track(3, "t1", TRUE)}
    /\ nextId = 4

\* the partial parameter records the header passes to onChangeParams
HeaderPartials ==
    {[search |-> s] : s \in {"", "t1"}}

\* Header: search submit, sort/order/genre/artist change
OnChangeParams(newParams) ==
    /\ params' = handleSearchParams(params, newParams)
    /\ fetchTracks(net, params')
    /\ UNCHANGED modalVars
    /\ UNCHANGED <<tracks, paginationMeta, selectedTrackIds, isConfirmDialogOpen,
                   confirmAction, playingTrackId, refreshTrigger, db, nextId>>

\* pagination-prev button, disabled when params.page === 1
ClickPrev ==
    /\ params.page # 1
    /\ params.page > MinPage
    /\ params' = handlePageChange(params, params.page - 1)
    /\ fetchTracks(net, params')
    /\ UNCHANGED modalVars
    /\ UNCHANGED <<tracks, paginationMeta, selectedTrackIds, isConfirmDialogOpen,
                   confirmAction, playingTrackId, refreshTrigger, db, nextId>>

\* pagination-next button, disabled when params.page >= paginationMeta.totalPages
ClickNext ==
    /\ ~(params.page >= paginationMeta.totalPages)
    /\ params' = handlePageChange(params, params.page + 1)
    /\ fetchTracks(net, params')
    /\ UNCHANGED modalVars
    /\ UNCHANGED <<tracks, paginationMeta, selectedTrackIds, isConfirmDialogOpen,
                   confirmAction, playingTrackId, refreshTrigger, db, nextId>>

\* a Retry button that only clears the message
clearErrorOnly ==
    /\ error # NoError
    /\ error' = NoError
    /\ UNCHANGED modalVars
    /\ UNCHANGED <<tracks, paginationMeta, isLoading, selectedTrackIds,
                   isConfirmDialogOpen, confirmAction, playingTrackId, params,
                   refreshTrigger, net, db, nextId>>

\* Retry button of the error toast
ClickRetry ==
    /\ error # NoError
    /\ refreshTrigger < MaxRefresh
    /\ error' = NoError
    /\ refreshTrigger' = refreshTrigger + 1
    /\ fetchTracks(net, params)
    /\ UNCHANGED modalVars
    /\ UNCHANGED <<tracks, paginationMeta, selectedTrackIds, isConfirmDialogOpen,
                   confirmAction, playingTrackId, params, db, nextId>>

\* GET tracks on the remote service
ServeList(i) ==
    /\ net[i].kind = "list" /\ net[i].stage = "sent"
    /\ net' = [net EXCEPT ![i].stage = "served", ![i].resp = ListResponse(net[i].query)]
    /\ UNCHANGED modalVars
    /\ UNCHANGED <<tracks, paginationMeta, isLoading, error, selectedTrackIds,
                   isConfirmDialogOpen, confirmAction, playingTrackId, params,
                   refreshTrigger, db, nextId>>

\* a fetchTracks whose try branch stores data.meta.totalPages as it came
storeResponseAsIs(i) ==
    /\ net[i].kind = "list" /\ net[i].stage = "served" /\ net[i].resp.ok
    /\ tracks' = net[i].resp.data
    /\ paginationMeta' =
          [total |-> net[i].resp.total, totalPages |-> net[i].resp.totalPages]
    /\ isLoading' = FALSE
    /\ net' = RemoveAt(net, i)
    /\ UNCHANGED modalVars
    /\ UNCHANGED <<error, selectedTrackIds, isConfirmDialogOpen, confirmAction,
                   playingTrackId, params, refreshTrigger, db, nextId>>

\* fetchTracks after the await: the try branch and finally
DeliverList(i) ==
    /\ net[i].kind = "list" /\ net[i].stage = "served" /\ net[i].resp.ok
    /\ tracks' = net[i].resp.data
    /\ paginationMeta' =
          [total      |-> net[i].resp.total,
           totalPages |-> IF net[i].resp.totalPages = 0 THEN 1
                          ELSE net[i].resp.totalPages]
    /\ isLoading' = FALSE
    /\ net' = RemoveAt(net, i)
    /\ UNCHANGED modalVars
    /\ UNCHANGED <<error, selectedTrackIds, isConfirmDialogOpen, confirmAction,
                   playingTrackId, params, refreshTrigger, db, nextId>>

\* a fetchTracks whose catch branch is not followed by the finally
failKeepsLoading(i) ==
    /\ net[i].kind = "list"
    /\ error' = FetchError
    /\ tracks' = <<>>
    /\ net' = RemoveAt(net, i)
    /\ UNCHANGED modalVars
    /\ UNCHANGED <<paginationMeta, isLoading, selectedTrackIds, isConfirmDialogOpen,
                   confirmAction, playingTrackId, params, refreshTrigger, db, nextId>>

\* fetchTracks after the await: the catch branch and finally; the request
\* was rejected by the service or lost in transport
FailList(i) ==
    /\ net[i].kind = "list"
    /\ error' = FetchError
    /\ tracks' = <<>>
    /\ isLoading' = FALSE
    /\ net' = RemoveAt(net, i)
    /\ UNCHANGED modalVars
    /\ UNCHANGED <<paginationMeta, selectedTrackIds, isConfirmDialogOpen,
                   confirmAction, playingTrackId, params, refreshTrigger, db, nextId>>

(* ------------------------- selection, playback ------------------------- *)
\* the rows are rendered only when nothing is loading and no error is shown
RowsShown == ~isLoading /\ error = NoError /\ Len(tracks) > 0

\* the updater of handleSelectTrack
handleSelectTrack(prev, id) ==
    IF Includes(prev, id) THEN SelectSeq(prev, LAMBDA x : x # id)
    ELSE Append(prev, id)

\* handleSelectAll, on the tracks and the selection of the current render
handleSelectAll(ts, sel) ==
    IF \A i \in DOMAIN ts : Includes(sel, ts[i].id) THEN <<>> ELSE MapIds(ts)

\* a play handler that never clears the pointer: setPlayingTrackId(id)
playTrack(playing, id) == id

\* handlePlayTrack
handlePlayTrack(playing, id) == IF id = playing THEN NoId ELSE id

\* a track-checkbox that also stops the playback
toggleSelectStoppingPlayback(id) ==
    /\ RowsShown /\ id \in IdSet(tracks)
    /\ selectedTrackIds' = handleSelectTrack(selectedTrackIds, id)
    /\ playingTrackId' = NoId
    /\ UNCHANGED modalVars
    /\ UNCHANGED <<tracks, paginationMeta, isLoading, error, isConfirmDialogOpen,
                   confirmAction, params, refreshTrigger, net, db, nextId>>

\* track-checkbox of a row
ToggleSelect(id) ==
    /\ RowsShown /\ id \in IdSet(tracks)
    /\ selectedTrackIds' = handleSelectTrack(selectedTrackIds, id)
    /\ UNCHANGED modalVars
    /\ UNCHANGED <<tracks, paginationMeta, isLoading, error, isConfirmDialogOpen,
                   confirmAction, playingTrackId, params, refreshTrigger, net,
                   db, nextId>>

\* select-all checkbox of the header
ClickSelectAll ==
    /\ selectedTrackIds' = handleSelectAll(tracks, selectedTrackIds)
    /\ UNCHANGED modalVars
    /\ UNCHANGED <<tracks, paginationMeta, isLoading, error, isConfirmDialogOpen,
                   confirmAction, playingTrackId, params, refreshTrigger, net,
                   db, nextId>>

\* play/pause button of a row, disabled when the row has no audio file
ClickPlay(id) ==
    /\ RowsShown
    /\ \E i \in DOMAIN tracks : tracks[i].id = id /\ tracks[i].audioFile
    /\ playingTrackId' = handlePlayTrack(playingTrackId, id)
    /\ UNCHANGED modalVars
    /\ UNCHANGED <<tracks, paginationMeta, isLoading, error, selectedTrackIds,
                   isConfirmDialogOpen, confirmAction, params, refreshTrigger,
                   net, db, nextId>>

(* ------------------------- delete, bulk delete ------------------------- *)
\* handleDeleteTrack(id): opens the dialog and stores a closure over id and
\* the selectedTrackIds of the render the row was drawn in
handleDeleteTrack(id) ==
    [kind |-> "single", id |-> id, tracks |-> <<>>,
     selectedTrackIds |-> selectedTrackIds, page |-> 1]

\* handleBulkDelete: stores a closure over the tracks, selectedTrackIds and
\* params of the render the header was drawn in
handleBulkDelete ==
    [kind |-> "bulk", id |-> NoId, tracks |-> tracks,
     selectedTrackIds |-> selectedTrackIds, page |-> params.page]

\* delete button of a row
ClickDelete(id) ==
    /\ RowsShown /\ id \in IdSet(tracks)
    /\ isConfirmDialogOpen' = TRUE
    /\ confirmAction' = handleDeleteTrack(id)
    /\ UNCHANGED modalVars
    /\ UNCHANGED <<tracks, paginationMeta, isLoading, error, selectedTrackIds,
                   playingTrackId, params, refreshTrigger, net, db, nextId>>

\* bulk-delete button of the header, rendered when something is selected
ClickBulkDelete ==
    /\ Len(selectedTrackIds) # 0
    /\ isConfirmDialogOpen' = TRUE
    /\ confirmAction' = handleBulkDelete
    /\ UNCHANGED modalVars
    /\ UNCHANGED <<tracks, paginationMeta, isLoading, error, selectedTrackIds,
                   playingTrackId, params, refreshTrigger, net, db, nextId>>

\* a cancel button that also drops the selection
cancelClearingSelection ==
    /\ isConfirmDialogOpen
    /\ isConfirmDialogOpen' = FALSE
    /\ selectedTrackIds' = <<>>
    /\ UNCHANGED modalVars
    /\ UNCHANGED <<tracks, paginationMeta, isLoading, error, confirmAction,
                   playingTrackId, params, refreshTrigger, net, db, nextId>>

\* cancel-delete button
ClickCancel ==
    /\ isConfirmDialogOpen
    /\ isConfirmDialogOpen' = FALSE
    /\ UNCHANGED modalVars
    /\ UNCHANGED <<tracks, paginationMeta, isLoading, error, selectedTrackIds,
                   confirmAction, playingTrackId, params, refreshTrigger, net,
                   db, nextId>>

\* total: Math.max(0, prev.total - n)
decrementTotal(meta, n) == [meta EXCEPT !.total = Max(0, meta.total - n)]

\* prev.filter((track) => track.id !== id)
removeTrack(ts, id) == SelectSeq(ts, LAMBDA t : t.id # id)

\* tracksToKeep of the bulk closure
tracksToKeep(c) ==
    SelectSeq(c.tracks, LAMBDA t : ~Includes(c.selectedTrackIds, t.id))

\* confirm-delete button running the closure of handleDeleteTrack up to
\* await deleteTrack(id)
ConfirmSingle ==
    LET c == confirmAction IN
    /\ isConfirmDialogOpen /\ c.kind = "single"
    /\ Len(net) < MaxInFlight
    /\ tracks' = removeTrack(tracks, c.id)
    /\ paginationMeta' = decrementTotal(paginationMeta, 1)
    /\ selectedTrackIds' =
          IF Includes(c.selectedTrackIds, c.id)
          THEN SelectSeq(selectedTrackIds, LAMBDA x : x # c.id)
          ELSE selectedTrackIds
    \* empty and page of a delete request are not used by the code: they
    \* record whether this confirmation emptied the collection, and on which page
    /\ net' = Append(net, Request("delete", InitialParams, c.id, <<>>,
                                  Len(tracks) > 0 /\ Len(removeTrack(tracks, c.id)) = 0,
                                  params.page))
    /\ UNCHANGED modalVars
    /\ UNCHANGED <<isLoading, error, isConfirmDialogOpen, confirmAction,
                   playingTrackId, params, refreshTrigger, db, nextId>>

\* a closure of handleBulkDelete that leaves the selection as it is
bulkDeleteKeepingSelection ==
    LET c == confirmAction IN
    /\ isConfirmDialogOpen /\ c.kind = "bulk"
    /\ Len(net) < MaxInFlight
    /\ tracks' = tracksToKeep(c)
    /\ paginationMeta' = decrementTotal(paginationMeta, Len(c.selectedTrackIds))
    /\ net' = Append(net, Request("deleteMany", InitialParams, NoId,
                                  c.selectedTrackIds,
                                  Len(tracksToKeep(c)) = 0, c.page))
    /\ UNCHANGED modalVars
    /\ UNCHANGED <<isLoading, error, selectedTrackIds, isConfirmDialogOpen,
                   confirmAction, playingTrackId, params, refreshTrigger, db,
                   nextId>>

\* confirm-delete button running the closure of handleBulkDelete up to
\* await deleteTracks(deletedTrackIds)
ConfirmBulk ==
    LET c == confirmAction IN
    /\ isConfirmDialogOpen /\ c.kind = "bulk"
    /\ Len(net) < MaxInFlight
    /\ tracks' = tracksToKeep(c)
    /\ paginationMeta' = decrementTotal(paginationMeta, Len(c.selectedTrackIds))
    /\ selectedTrackIds' = <<>>
    /\ net' = Append(net, Request("deleteMany", InitialParams, NoId,
                                  c.selectedTrackIds,
                                  Len(tracksToKeep(c)) = 0, c.page))
    /\ UNCHANGED modalVars
    /\ UNCHANGED <<isLoading, error, isConfirmDialogOpen, confirmAction,
                   playingTrackId, params, refreshTrigger, db, nextId>>

\* DELETE tracks/:id on the remote service
ServeDelete(i) ==
    /\ net[i].kind = "delete" /\ net[i].stage = "sent"
    /\ db' = {t \in db : t.id # net[i].id}
    /\ net' = [net EXCEPT ![i].stage = "served",
                          ![i].resp = [NoResponse EXCEPT !.ok = net[i].id \in DbIds]]
    /\ UNCHANGED modalVars
    /\ UNCHANGED <<tracks, paginationMeta, isLoading, error, selectedTrackIds,
                   isConfirmDialogOpen, confirmAction, playingTrackId, params,
                   refreshTrigger, nextId>>

\* the closure of handleDeleteTrack after the await returned: finally
DeliverDelete(i) ==
    /\ net[i].kind = "delete" /\ net[i].stage = "served" /\ net[i].resp.ok
    /\ isConfirmDialogOpen' = FALSE
    /\ net' = RemoveAt(net, i)
    /\ UNCHANGED modalVars
    /\ UNCHANGED <<tracks, paginationMeta, isLoading, error, selectedTrackIds,
                   confirmAction, playingTrackId, params, refreshTrigger, db,
                   nextId>>

\* the closure of handleDeleteTrack after deleteTrack threw (the request was
\* rejected or lost): catch and finally, then the fetch effect that the new
\* refreshTrigger starts, whose setError(null) replaces the message
FailDelete(i) ==
    /\ net[i].kind = "delete"
    /\ refreshTrigger < MaxRefresh
    /\ refreshTrigger' = refreshTrigger + 1
    /\ isConfirmDialogOpen' = FALSE
    \* the id of a list request is not used by the code: it records the
    \* track whose failed delete started this reload
    /\ fetchTracksAs(RemoveAt(net, i), [ListRequest(params) EXCEPT !.id = net[i].id])
    /\ UNCHANGED modalVars
    /\ UNCHANGED <<tracks, paginationMeta, selectedTrackIds, confirmAction,
                   playingTrackId, params, db, nextId>>

\* POST tracks/delete {ids} on the remote service
ServeDeleteMany(i) ==
    /\ net[i].kind = "deleteMany" /\ net[i].stage = "sent"
    /\ db' = {t \in db : ~Includes(net[i].ids, t.id)}
    /\ net' = [net EXCEPT ![i].stage = "served",
                          ![i].resp = [NoResponse EXCEPT !.ok = TRUE]]
    /\ UNCHANGED modalVars
    /\ UNCHANGED <<tracks, paginationMeta, isLoading, error, selectedTrackIds,
                   isConfirmDialogOpen, confirmAction, playingTrackId, params,
                   refreshTrigger, nextId>>

\* a closure of handleBulkDelete that only closes the dialog once
\* deleteTracks(...) returned: no step back, no forced reload
closeAfterBulkDelete(i) ==
    /\ isConfirmDialogOpen' = FALSE
    /\ net' = RemoveAt(net, i)
    /\ UNCHANGED modalVars
    /\ UNCHANGED <<tracks, paginationMeta, isLoading, error, selectedTrackIds,
                   confirmAction, playingTrackId, params, refreshTrigger, db,
                   nextId>>

\* the closure of handleBulkDelete after await deleteTracks(...) returned
ResumeBulkDelete(i) ==
    LET r == net[i]
        n == RemoveAt(net, i)
    IN
    /\ isConfirmDialogOpen' = FALSE
    /\ IF r.empty /\ r.page > 1
       THEN /\ params' = [params EXCEPT !.page = params.page - 1]
            /\ fetchTracks(n, params')
            /\ UNCHANGED refreshTrigger
       ELSE IF r.empty
       THEN /\ refreshTrigger < MaxRefresh
            /\ refreshTrigger' = refreshTrigger + 1
            /\ fetchTracks(n, params)
            /\ UNCHANGED params
       ELSE /\ net' = n
            /\ UNCHANGED <<params, refreshTrigger, isLoading, error>>
    /\ UNCHANGED modalVars
    /\ UNCHANGED <<tracks, paginationMeta, selectedTrackIds, confirmAction,
                   playingTrackId, db, nextId>>

\* deleteTracks resolved: the service answered
DeliverDeleteMany(i) ==
    /\ net[i].kind = "deleteMany" /\ net[i].stage = "served"
    /\ ResumeBulkDelete(i)

\* deleteTracks caught the failure of its request and resolved all the same
FailDeleteMany(i) ==
    /\ net[i].kind = "deleteMany"
    /\ ResumeBulkDelete(i)

(* --------------------------- the dialogs ------------------------------- *)
\* what the controller keeps apart from the dialogs
listVars == <<tracks, paginationMeta, isLoading, error, selectedTrackIds,
              isConfirmDialogOpen, confirmAction, playingTrackId, params,
              refreshTrigger>>

CreateKinds == {"create", "uploadNew"}
EditKinds == {"update", "uploadEdit"}
\* every call the edit dialog makes
EditCalls == EditKinds \cup {"deleteFile"}

\* a dialog is rendered only while its modal flag is set: closing it unmounts
\* it, its form and error are gone, and the continuations of the calls it
\* made still run but their setError reaches no mounted component
Orphan(n, kinds) ==
    [i \in DOMAIN n |->
        IF n[i].kind \in kinds THEN [n[i] EXCEPT !.live = FALSE] ELSE n[i]]

\* the files the user may pick: media type and size in bytes
Files ==
    {[type |-> ty, size |-> sz] :
        ty \in {"audio/mpeg", "audio/wav", "image/png"},
        sz \in {1, MaxFileSize, MaxFileSize + 1}}

\* a file input that attaches whatever was picked
attachAnyFile(form, err, file) ==
    [form |-> [form EXCEPT !.audioFile = file], error |-> NoError]

\* handleFileChange of both dialogs: the form and the error it leaves
handleFileChange(form, err, file) ==
    IF file.type \notin {"audio/mpeg", "audio/wav"}
    THEN [form |-> form, error |-> FileTypeError]
    ELSE IF file.size > MaxFileSize
    THEN [form |-> form, error |-> FileSizeError]
    ELSE [form |-> [form EXCEPT !.audioFile = file], error |-> NoError]

\* create-track-button: createModal.open
ClickCreate ==
    /\ createModal' = TRUE
    /\ UNCHANGED <<listVars, editModal, currentTrack, createForm, createError,
                   editForm, editError, isDeletedFile, net, db, nextId>>

\* CreateTrackModal: typing into the title input (handleChange)
TypeCreateTitle(t) ==
    /\ createModal
    /\ createForm' = [createForm EXCEPT !.title = t]
    /\ UNCHANGED <<listVars, createModal, editModal, currentTrack, createError,
                   editForm, editError, isDeletedFile, net, db, nextId>>

\* CreateTrackModal: typing into the artist input (handleChange)
TypeCreateArtist(a) ==
    /\ createModal
    /\ createForm' = [createForm EXCEPT !.artist = a]
    /\ UNCHANGED <<listVars, createModal, editModal, currentTrack, createError,
                   editForm, editError, isDeletedFile, net, db, nextId>>

\* CreateTrackModal: picking a file in the file input
ChooseCreateFile(file) ==
    /\ createModal
    /\ createForm' = handleFileChange(createForm, createError, file).form
    /\ createError' = handleFileChange(createForm, createError, file).error
    /\ UNCHANGED <<listVars, createModal, editModal, currentTrack, editForm,
                   editError, isDeletedFile, net, db, nextId>>

CreateRequest(form, p) ==
    [Request("create", p, NoId, <<>>, FALSE, p.page) EXCEPT !.form = form]

\* a submit that sends the draft as it is, without looking at title and artist
submitUnchecked ==
    /\ createModal
    /\ Len(net) < MaxInFlight
    /\ net' = Append(net, CreateRequest(createForm, params))
    /\ UNCHANGED <<listVars, modalVars, db, nextId>>

\* CreateTrackModal submit-button: handleSubmit up to await createTrack(...)
SubmitCreate ==
    /\ createModal
    /\ IF createForm.title = "" \/ createForm.artist = ""
       THEN /\ createError' = CreateRequired
            /\ UNCHANGED net
       ELSE /\ Len(net) < MaxInFlight
            /\ net' = Append(net, CreateRequest(createForm, params))
            /\ UNCHANGED createError
    /\ UNCHANGED <<listVars, createModal, editModal, currentTrack, createForm,
                   editForm, editError, isDeletedFile, db, nextId>>

\* CreateTrackModal cancel-button: onClose = createModal.close
CancelCreate ==
    /\ createModal
    /\ createModal' = FALSE
    /\ createForm' = EmptyForm
    /\ createError' = NoError
    /\ net' = Orphan(net, CreateKinds)
    /\ UNCHANGED <<listVars, editModal, currentTrack, editForm, editError, isDeletedFile, db,
                   nextId>>

\* POST tracks on the remote service: the new track gets the next id
postTrack(id, form) == [Track(id, form.title, FALSE) EXCEPT !.artist = form.artist]

ServeCreate(i) ==
    /\ net[i].kind = "create" /\ net[i].stage = "sent"
    /\ nextId <= MaxId
    /\ db' = db \cup {postTrack(nextId, net[i].form)}
    /\ nextId' = nextId + 1
    /\ net' = [net EXCEPT ![i].stage = "served",
                          ![i].track = postTrack(nextId, net[i].form)]
    /\ UNCHANGED <<listVars, modalVars>>

\* a handleTrackCreate that puts the new track at the end of the collection
appendCreated(newTrack) ==
    /\ tracks' = Append(tracks, newTrack)
    /\ paginationMeta' = [paginationMeta EXCEPT !.total = paginationMeta.total + 1]
    /\ createModal' = FALSE
    /\ createForm' = EmptyForm
    /\ createError' = NoError

\* handleTrackCreate, and the unmount of the dialog it closes
onCreate(newTrack) ==
    /\ tracks' = <<newTrack>> \o tracks
    /\ paginationMeta' = [paginationMeta EXCEPT !.total = paginationMeta.total + 1]
    /\ createModal' = FALSE
    /\ createForm' = EmptyForm
    /\ createError' = NoError

\* a handleSubmit that reports the created track at once and never uploads
\* the attached file
createWithoutUpload(i) ==
    /\ net[i].kind = "create" /\ net[i].stage = "served"
    /\ onCreate(net[i].track)
    /\ net' = Orphan(RemoveAt(net, i), CreateKinds)
    /\ UNCHANGED <<isLoading, error, selectedTrackIds, isConfirmDialogOpen,
                   confirmAction, playingTrackId, params, refreshTrigger,
                   editModal, currentTrack, editForm, editError, isDeletedFile,
                   db, nextId>>

\* handleSubmit of CreateTrackModal after createTrack returned: with a file
\* in the submitted form it goes on to await uploadTrackFile(newTrack.id),
\* without one it calls onCreate(newTrack)
DeliverCreate(i) ==
    LET r == net[i]
        n == RemoveAt(net, i)
    IN
    /\ r.kind = "create" /\ r.stage = "served"
    /\ IF r.form.audioFile # NoFile
       THEN /\ net' = Append(n, [r EXCEPT !.kind = "uploadNew", !.stage = "sent",
                                          !.id = r.track.id])
            /\ UNCHANGED <<tracks, paginationMeta, createModal, createForm,
                           createError>>
       ELSE /\ onCreate(r.track)
            /\ net' = Orphan(n, CreateKinds)
    /\ UNCHANGED <<isLoading, error, selectedTrackIds, isConfirmDialogOpen,
                   confirmAction, playingTrackId, params, refreshTrigger,
                   editModal, currentTrack, editForm, editError, isDeletedFile, db, nextId>>

\* handleSubmit of CreateTrackModal: createTrack or uploadTrackFile threw
FailCreate(i) ==
    /\ net[i].kind \in CreateKinds
    /\ createError' = IF net[i].live THEN RequestError ELSE createError
    /\ net' = RemoveAt(net, i)
    /\ UNCHANGED <<listVars, createModal, editModal, currentTrack, createForm,
                   editForm, editError, isDeletedFile, db, nextId>>

\* POST tracks/:id/upload on the remote service
ServeUpload(i) ==
    /\ net[i].kind \in {"uploadNew", "uploadEdit"} /\ net[i].stage = "sent"
    /\ net[i].id \in DbIds
    /\ db' = {IF t.id = net[i].id THEN [t EXCEPT !.audioFile = TRUE] ELSE t : t \in db}
    /\ net' = [net EXCEPT ![i].stage = "served"]
    /\ UNCHANGED <<listVars, modalVars, nextId>>

\* handleSubmit of CreateTrackModal after uploadTrackFile returned:
\* onFileUpload(), the fetchTracks of the render the submit ran in, then
\* onCreate(newTrack)
DeliverUploadNew(i) ==
    LET r == net[i]
        n == RemoveAt(net, i)
    IN
    /\ r.kind = "uploadNew" /\ r.stage = "served"
    /\ fetchTracks(Orphan(n, CreateKinds), r.query)
    /\ onCreate(r.track)
    /\ UNCHANGED <<selectedTrackIds, isConfirmDialogOpen, confirmAction,
                   playingTrackId, params, refreshTrigger, editModal,
                   currentTrack, editForm, editError, isDeletedFile, db, nextId>>

\* track edit button: handleEditTrack, then the effect of the mounted
\* EditTrackModal that fills the form from the track
ClickEdit(i) ==
    /\ RowsShown
    /\ currentTrack' = tracks[i]
    /\ editModal' = TRUE
    /\ editForm' = [title |-> tracks[i].title, artist |-> tracks[i].artist,
                    audioFile |-> NoFile]
    /\ UNCHANGED <<listVars, createModal, createForm, createError, editError, isDeletedFile,
                   net, db, nextId>>

\* EditTrackModal: typing into the title input (handleChange)
TypeEditTitle(t) ==
    /\ editModal
    /\ editForm' = [editForm EXCEPT !.title = t]
    /\ UNCHANGED <<listVars, createModal, editModal, currentTrack, createForm,
                   createError, editError, isDeletedFile, net, db, nextId>>

\* EditTrackModal: typing into the artist input (handleChange)
TypeEditArtist(a) ==
    /\ editModal
    /\ editForm' = [editForm EXCEPT !.artist = a]
    /\ UNCHANGED <<listVars, createModal, editModal, currentTrack, createForm,
                   createError, editError, isDeletedFile, net, db, nextId>>

\* EditTrackModal: picking a file in the file input
ChooseEditFile(file) ==
    /\ editModal
    /\ editForm' = handleFileChange(editForm, editError, file).form
    /\ editError' = handleFileChange(editForm, editError, file).error
    /\ UNCHANGED <<listVars, createModal, editModal, currentTrack, createForm,
                   createError, isDeletedFile, net, db, nextId>>

UpdateRequest(id, form, p) ==
    [Request("update", p, id, <<>>, FALSE, p.page) EXCEPT !.form = form]

\* EditTrackModal submit-button: handleSave, handleSubmit up to
\* await updateTrack(track.id, ...); when handleSubmit returns at the
\* validation, handleSave goes on at once with setIsDeletedFile(false)
SaveEdit ==
    /\ editModal
    /\ IF editForm.title = "" \/ editForm.artist = ""
       THEN /\ editError' = EditRequired
            /\ isDeletedFile' = FALSE
            /\ UNCHANGED net
       ELSE /\ Len(net) < MaxInFlight
            /\ net' = Append(net, UpdateRequest(currentTrack.id, editForm, params))
            /\ UNCHANGED <<editError, isDeletedFile>>
    /\ UNCHANGED <<listVars, createModal, editModal, currentTrack, createForm,
                   createError, editForm, db, nextId>>

\* EditTrackModal cancel button: handleClose
CloseEdit ==
    /\ editModal
    /\ editModal' = FALSE
    /\ editForm' = EmptyForm
    /\ editError' = NoError
    /\ isDeletedFile' = FALSE
    /\ net' = Orphan(net, EditCalls)
    /\ UNCHANGED <<listVars, createModal, currentTrack, createForm, createError,
                   db, nextId>>

\* PUT tracks/:id on the remote service: the stored track with the new title
\* and artist
putTrack(t, form) == [t EXCEPT !.title = form.title, !.artist = form.artist]

ServeUpdate(i) ==
    /\ net[i].kind = "update" /\ net[i].stage = "sent"
    /\ net[i].id \in DbIds
    /\ db' = {IF t.id = net[i].id THEN putTrack(t, net[i].form) ELSE t : t \in db}
    /\ net' = [net EXCEPT ![i].stage = "served",
                          ![i].track = putTrack(DbTrack(net[i].id), net[i].form)]
    /\ UNCHANGED <<listVars, modalVars, nextId>>

\* a handleUpdateTrack that moves the updated track to the front
moveUpdatedToFront(updatedTrack) ==
    /\ tracks' = <<updatedTrack>> \o SelectSeq(tracks, LAMBDA t : t.id # updatedTrack.id)
    /\ editModal' = FALSE
    /\ editForm' = EmptyForm
    /\ editError' = NoError
    /\ isDeletedFile' = FALSE

\* handleUpdateTrack and onClose, and the unmount of the dialog they close
onUpdate(updatedTrack) ==
    /\ tracks' = [j \in DOMAIN tracks |->
                    IF tracks[j].id = updatedTrack.id THEN updatedTrack
                    ELSE tracks[j]]
    /\ editModal' = FALSE
    /\ editForm' = EmptyForm
    /\ editError' = NoError
    /\ isDeletedFile' = FALSE

\* handleSubmit of EditTrackModal after updateTrack returned: with a file in
\* the submitted form it goes on to await uploadTrackFile(track.id), without
\* one it calls onUpdate(updatedTrack) and onClose()
DeliverUpdate(i) ==
    LET r == net[i]
        n == RemoveAt(net, i)
    IN
    /\ r.kind = "update" /\ r.stage = "served"
    /\ IF r.form.audioFile # NoFile
       THEN /\ net' = Append(n, [r EXCEPT !.kind = "uploadEdit", !.stage = "sent"])
            /\ UNCHANGED <<tracks, editModal, editForm, editError, isDeletedFile>>
       ELSE /\ onUpdate(r.track)
            /\ net' = Orphan(n, EditCalls)
    /\ UNCHANGED <<paginationMeta, isLoading, error, selectedTrackIds,
                   isConfirmDialogOpen, confirmAction, playingTrackId, params,
                   refreshTrigger, createModal, currentTrack, createForm,
                   createError, db, nextId>>

\* a handleSubmit whose catch closes the dialog instead of showing the error
closeOnFailure(i) ==
    /\ net[i].kind \in EditKinds
    /\ editModal' = FALSE
    /\ editForm' = EmptyForm
    /\ editError' = NoError
    /\ isDeletedFile' = FALSE
    /\ net' = Orphan(RemoveAt(net, i), EditCalls)
    /\ UNCHANGED <<listVars, createModal, currentTrack, createForm, createError,
                   db, nextId>>

\* handleSubmit of EditTrackModal: updateTrack or uploadTrackFile threw; the
\* catch sets the error and handleSave goes on with setIsDeletedFile(false)
FailUpdate(i) ==
    /\ net[i].kind \in EditKinds
    /\ editError' = IF net[i].live THEN RequestError ELSE editError
    /\ isDeletedFile' = IF net[i].live THEN FALSE ELSE isDeletedFile
    /\ net' = RemoveAt(net, i)
    /\ UNCHANGED <<listVars, createModal, editModal, currentTrack, createForm,
                   createError, editForm, db, nextId>>

\* handleSubmit of EditTrackModal after uploadTrackFile returned:
\* onFileUpload(fileUrl), the fetchTracks of the render the save ran in, then
\* onUpdate(updatedTrack) and onClose()
DeliverUploadEdit(i) ==
    LET r == net[i]
        n == RemoveAt(net, i)
    IN
    /\ r.kind = "uploadEdit" /\ r.stage = "served"
    /\ fetchTracks(Orphan(n, EditCalls), r.query)
    /\ onUpdate(r.track)
    /\ UNCHANGED <<paginationMeta, selectedTrackIds, isConfirmDialogOpen,
                   confirmAction, playingTrackId, params, refreshTrigger,
                   createModal, currentTrack, createForm, createError, db,
                   nextId>>

\* EditTrackModal "Delete audiofile" button: handleDeleteFile up to
\* await deleteAudiofile(track.id); with the flag set it does nothing
ClickDeleteFile ==
    /\ editModal
    /\ IF isDeletedFile
       THEN UNCHANGED net
       ELSE /\ Len(net) < MaxInFlight
            /\ net' = Append(net, Request("deleteFile", params, currentTrack.id,
                                          <<>>, FALSE, params.page))
    /\ UNCHANGED <<listVars, modalVars, db, nextId>>

\* DELETE tracks/:id/file on the remote service: the stored track loses its
\* file; a track that is not stored or has no file gets no answer but an error
ServeDeleteFile(i) ==
    /\ net[i].kind = "deleteFile" /\ net[i].stage = "sent"
    /\ \E t \in db : t.id = net[i].id /\ t.audioFile
    /\ db' = {IF t.id = net[i].id THEN [t EXCEPT !.audioFile = FALSE] ELSE t : t \in db}
    /\ net' = [net EXCEPT ![i].stage = "served"]
    /\ UNCHANGED <<listVars, modalVars, nextId>>

\* handleDeleteFile after await deleteAudiofile(...) returned
ResumeDeleteFile(i) ==
    /\ isDeletedFile' = IF net[i].live THEN TRUE ELSE isDeletedFile
    /\ net' = RemoveAt(net, i)
    /\ UNCHANGED <<listVars, createModal, editModal, currentTrack, createForm,
                   createError, editForm, editError, db, nextId>>

\* deleteAudiofile resolved: the service answered
DeliverDeleteFile(i) ==
    /\ net[i].kind = "deleteFile" /\ net[i].stage = "served"
    /\ ResumeDeleteFile(i)

\* deleteAudiofile caught the failure of its request and resolved all the same
FailDeleteFile(i) ==
    /\ net[i].kind = "deleteFile"
    /\ ResumeDeleteFile(i)

(* --------------------------- specifications --------------------------- *)
\* the remote service and the network, for each kind of request
ListNet ==
    \/ \E i \in DOMAIN net : ServeList(i)
    \/ \E i \in DOMAIN net : DeliverList(i)
    \/ \E i \in DOMAIN net : FailList(i)

DeleteNet ==
    \/ \E i \in DOMAIN net : ServeDelete(i)
    \/ \E i \in DOMAIN net : DeliverDelete(i)
    \/ \E i \in DOMAIN net : FailDelete(i)

BulkNet ==
    \/ \E i \in DOMAIN net : ServeDeleteMany(i)
    \/ \E i \in DOMAIN net : DeliverDeleteMany(i)
    \/ \E i \in DOMAIN net : FailDeleteMany(i)

\* the user at the header and the footer
Navigate ==
    \/ \E np \in HeaderPartials : OnChangeParams(np)
    \/ ClickPrev
    \/ ClickNext
    \/ ClickRetry

Select ==
    \/ \E id \in Ids : ToggleSelect(id)
    \/ ClickSelectAll

\* navigation and reloads only
NextNav == Navigate \/ ListNet
SpecNav == Init /\ [][NextNav]_vars

\* the same with fair delivery: a list call that is outstanding returns, with
\* a response or with an error (the client gives up after its timeout)
ListReturns == \E i \in DOMAIN net : DeliverList(i) \/ FailList(i)
SpecNavFair == SpecNav /\ WF_vars(ListReturns)

\* navigation and selection
NextSelect == Navigate \/ Select \/ ListNet
SpecSelect == Init /\ [][NextSelect]_vars

\* an open dialog (the confirmation, CreateTrackModal, EditTrackModal) covers
\* the page (fixed inset-0): in the specifications below the user works with
\* the pointer and reaches the controls of the page only while no dialog is open
OnPage(A) == ~isConfirmDialogOpen /\ ~createModal /\ ~editModal /\ A

\* navigation and the delete of single tracks
NextDelete ==
    \/ OnPage(Navigate)
    \/ OnPage(\E id \in Ids : ClickDelete(id))
    \/ ClickCancel
    \/ ConfirmSingle
    \/ ListNet
    \/ DeleteNet
SpecDelete == Init /\ [][NextDelete]_vars

\* paging, the select-all checkbox and bulk delete
NextBulk ==
    \/ OnPage(ClickPrev)
    \/ OnPage(ClickNext)
    \/ OnPage(ClickSelectAll)
    \/ OnPage(ClickBulkDelete)
    \/ ClickCancel
    \/ ConfirmBulk
    \/ ListNet
    \/ BulkNet
SpecBulk == Init /\ [][NextBulk]_vars

\* the parameter-change operation on its own: it starts from any page and
\* several settings of the query, and is handed partials over every field of
\* the parameters, the ones the header never sends included; the operation
\* does not read the collection, so the reloads it starts are left to fail
AnyPartials ==
    {[search |-> "t1"], [sort |-> "artist"], [order |-> "desc"],
     [genre |-> "Rock"], [artist |-> "a1"], [page |-> 2],
     [limit |-> Limit + 1], [totalPages |-> 2],
     [search |-> "", page |-> MaxPage]}

InitParams ==
    /\ params \in {[InitialParams EXCEPT !.search = s, !.order = o, !.page = p] :
                      s \in {"", "t1"}, o \in {"asc", "desc"}, p \in 1..MaxPage}
    /\ tracks = <<>>
    /\ paginationMeta = [total |-> 0, totalPages |-> 0]
    /\ isLoading = TRUE
    /\ error = NoError
    /\ selectedTrackIds = <<>>
    /\ isConfirmDialogOpen = FALSE
    /\ confirmAction = NoConfirm
    /\ playingTrackId = NoId
    /\ refreshTrigger = 0
    /\ createModal = FALSE
    /\ editModal = FALSE
    /\ currentTrack = NoTrack
    /\ createForm = EmptyForm
    /\ createError = NoError
    /\ editForm = EmptyForm
    /\ editError = NoError
    /\ isDeletedFile = FALSE
    /\ net = <<ListRequest(params)>>
    /\ db = {Track(1, "t0", TRUE), Track(2, "t0", FALSE), Track(3, "t1", TRUE)}
    /\ nextId = 4

NextParams ==
    \/ \E np \in AnyPartials : OnChangeParams(np)
    \/ \E i \in DOMAIN net : FailList(i)
SpecParams == InitParams /\ [][NextParams]_vars

\* a search for "t1", playback, the creation of tracks titled "t1" without a
\* file, and the edit dialog opened on tracks that have no audio file, to
\* attach one; the service answers every create, update and upload
AudioFiles == {f \in Files : f.type = "audio/mpeg" /\ f.size = 1}

NextDialogs ==
    \/ OnPage(OnChangeParams([search |-> "t1"]))
    \/ OnPage(\E id \in Ids : ClickPlay(id))
    \/ OnPage(ClickCreate)
    \/ TypeCreateTitle("t1")
    \/ TypeCreateArtist("a0")
    \/ SubmitCreate
    \/ CancelCreate
    \/ OnPage(\E i \in DOMAIN tracks : ~tracks[i].audioFile /\ ClickEdit(i))
    \/ \E f \in AudioFiles : ChooseEditFile(f)
    \/ SaveEdit
    \/ CloseEdit
    \/ ListNet
    \/ \E i \in DOMAIN net : ServeCreate(i)
    \/ \E i \in DOMAIN net : DeliverCreate(i)
    \/ \E i \in DOMAIN net : ServeUpdate(i)
    \/ \E i \in DOMAIN net : DeliverUpdate(i)
    \/ \E i \in DOMAIN net : ServeUpload(i)
    \/ \E i \in DOMAIN net : DeliverUploadEdit(i)
SpecDialogs == Init /\ [][NextDialogs]_vars

\* the create dialog on its own: title, artist and a valid file of the draft,
\* submit and cancel, and a service that may answer or fail every call of the
\* dialog and answers every list fetch
NextCreate ==
    \/ OnPage(ClickCreate)
    \/ \E t \in {"", "t1"} : TypeCreateTitle(t)
    \/ \E a \in {"", "a1"} : TypeCreateArtist(a)
    \/ \E f \in AudioFiles : ChooseCreateFile(f)
    \/ SubmitCreate
    \/ CancelCreate
    \/ \E i \in DOMAIN net : ServeList(i)
    \/ \E i \in DOMAIN net : DeliverList(i)
    \/ \E i \in DOMAIN net : ServeCreate(i)
    \/ \E i \in DOMAIN net : DeliverCreate(i)
    \/ \E i \in DOMAIN net : FailCreate(i)
    \/ \E i \in DOMAIN net : ServeUpload(i)
    \/ \E i \in DOMAIN net : DeliverUploadNew(i)
SpecCreate == Init /\ [][NextCreate]_vars

\* the edit dialog on its own, opened on the track 2 (stored without a file):
\* the draft's title and artist, a valid audio file, save and cancel, and a
\* service that may answer or fail every call
UpdateNet ==
    \/ \E i \in DOMAIN net : ServeUpdate(i)
    \/ \E i \in DOMAIN net : DeliverUpdate(i)
    \/ \E i \in DOMAIN net : FailUpdate(i)
    \/ \E i \in DOMAIN net : ServeUpload(i)
    \/ \E i \in DOMAIN net : DeliverUploadEdit(i)

NextEdit ==
    \/ OnPage(\E i \in DOMAIN tracks : tracks[i].id = 2 /\ ClickEdit(i))
    \/ \E t \in {"", "t1"} : TypeEditTitle(t)
    \/ TypeEditArtist("")
    \/ \E f \in AudioFiles : ChooseEditFile(f)
    \/ SaveEdit
    \/ CloseEdit
    \/ ListNet
    \/ UpdateNet
SpecEdit == Init /\ [][NextEdit]_vars

\* the stored audio file in the edit dialog: its delete, saves of a draft
\* with or without a title, cancel, and a service that may answer or fail
\* every call
DeleteFileNet ==
    \/ \E i \in DOMAIN net : ServeDeleteFile(i)
    \/ \E i \in DOMAIN net : DeliverDeleteFile(i)
    \/ \E i \in DOMAIN net : FailDeleteFile(i)

NextEditFile ==
    \/ OnPage(\E i \in DOMAIN tracks : ClickEdit(i))
    \/ TypeEditTitle("")
    \/ ClickDeleteFile
    \/ SaveEdit
    \/ CloseEdit
    \/ ListNet
    \/ \E i \in DOMAIN net : ServeUpdate(i)
    \/ \E i \in DOMAIN net : DeliverUpdate(i)
    \/ \E i \in DOMAIN net : FailUpdate(i)
    \/ DeleteFileNet
SpecEditFile == Init /\ [][NextEditFile]_vars

\* the file inputs of both dialogs, fed with files of every type and size,
\* on drafts with and without a title
NextFiles ==
    \/ OnPage(ClickCreate)
    \/ TypeCreateTitle("t1")
    \/ \E f \in Files : ChooseCreateFile(f)
    \/ CancelCreate
    \/ OnPage(\E i \in DOMAIN tracks : ClickEdit(i))
    \/ TypeEditTitle("")
    \/ \E f \in Files : ChooseEditFile(f)
    \/ CloseEdit
    \/ \E i \in DOMAIN net : ServeList(i)
    \/ \E i \in DOMAIN net : DeliverList(i)
SpecFiles == Init /\ [][NextFiles]_vars

\* the two completion callbacks of the controller with a selection, a playing
\* track and a later page in place: paging, select-all, the play of track 1,
\* and drafts without a file (a new track, the edit of track 2) that are
\* submitted and answered by the service
NextCompletion ==
    \/ OnPage(ClickNext)
    \/ OnPage(ClickSelectAll)
    \/ OnPage(ClickPlay(1))
    \/ OnPage(ClickCreate)
    \/ TypeCreateTitle("t1")
    \/ TypeCreateArtist("a1")
    \/ SubmitCreate
    \/ OnPage(\E i \in DOMAIN tracks : tracks[i].id = 2 /\ ClickEdit(i))
    \/ TypeEditTitle("t1")
    \/ SaveEdit
    \/ CloseEdit
    \/ \E i \in DOMAIN net : ServeList(i)
    \/ \E i \in DOMAIN net : DeliverList(i)
    \/ \E i \in DOMAIN net : ServeCreate(i)
    \/ \E i \in DOMAIN net : DeliverCreate(i)
    \/ \E i \in DOMAIN net : ServeUpdate(i)
    \/ \E i \in DOMAIN net : DeliverUpdate(i)
SpecCompletion == Init /\ [][NextCompletion]_vars

\* the selection under both deletes: the row checkboxes, select-all, the
\* delete of one track and of the selected tracks, on the first page
NextSelectDelete ==
    \/ OnPage(Select)
    \/ OnPage(\E id \in Ids : ClickDelete(id))
    \/ OnPage(ClickBulkDelete)
    \/ ClickCancel
    \/ ConfirmSingle
    \/ ConfirmBulk
    \/ ListNet
    \/ DeleteNet
    \/ BulkNet
SpecSelectDelete == Init /\ [][NextSelectDelete]_vars

\* one confirmation at a time: the dialog is opened from a row and leaves
\* only when the closure of handleDeleteTrack reaches its finally (cancel is
\* not pressed), so a delete call that is outstanding while the dialog is
\* open was issued from this opening of the dialog
NextConfirm ==
    \/ OnPage(ClickNext)
    \/ OnPage(\E id \in Ids : ClickDelete(id))
    \/ ConfirmSingle
    \/ ListNet
    \/ DeleteNet
SpecConfirm == Init /\ [][NextConfirm]_vars

\* paging, selection and playback
NextSelectPlay ==
    \/ ClickPrev
    \/ ClickNext
    \/ Select
    \/ \E id \in Ids : ClickPlay(id)
    \/ ListNet
SpecSelectPlay == Init /\ [][NextSelectPlay]_vars

\* navigation and playback
NextPlay ==
    \/ Navigate
    \/ \E id \in Ids : ClickPlay(id)
    \/ ListNet
SpecPlay == Init /\ [][NextPlay]_vars

(* ------------------------------- claims -------------------------------- *)
ListInFlight == \E i \in DOMAIN net : net[i].kind = "list"

\* C1: in every reachable state the query parameter page is at least 1.
C1_PageAtLeastOne == params.page >= 1

\* C2: whenever no list fetch is in flight, page <= max(totalPages, 1), with
\* totalPages the pagination metadata of the last successful list response.
C2_PageWithinTotalPages ==
    ~ListInFlight => params.page <= Max(paginationMeta.totalPages, 1)

\* C3: in every reachable state the selection set is a subset of the ids of
\* the tracks in the currently loaded collection.
C3_SelectionSubsetOfLoaded == ElemSet(selectedTrackIds) \subseteq IdSet(tracks)

\* C4: in every reachable state, a set playback pointer refers to a track of
\* the current collection that has an audio file.
C4_PlayingTrackLoadedWithAudio ==
    playingTrackId # NoId =>
        \E i \in DOMAIN tracks : tracks[i].id = playingTrackId /\ tracks[i].audioFile

\* C5: whenever the rows are displayed, at most one row of the collection is
\* in the playing state (its id is the playback pointer), whatever the order
\* of play toggles, reloads, creates and updates.
C5_AtMostOnePlayingRow ==
    RowsShown =>
        Cardinality({i \in DOMAIN tracks : tracks[i].id = playingTrackId}) <= 1

\* C6: every partial parameter change, whatever fields the partial carries and
\* whatever the current page, leaves page at 1, sets the fields the partial
\* names, and keeps every other parameter at its previous value.
C6_ParamChangeResetsPage ==
    [][\A np \in AnyPartials :
          OnChangeParams(np) =>
              /\ params'.page = 1
              /\ \A f \in DOMAIN params \ {"page"} :
                    params'[f] = IF f \in DOMAIN np THEN np[f] ELSE params[f]]_vars

\* C6 witness: a parameter change was made from a page above 1: the reload it
\* started follows, in issue order, a reload for a later page of another query
C6_ChangedFromLaterPage ==
    /\ Len(net) = 2
    /\ net[1].query.page > 1
    /\ net[2].query = params
    /\ params.page = 1
    /\ \E f \in DOMAIN params \ {"page"} : net[1].query[f] # params[f]

\* C7: selectAllVisible leaves the selection unchanged when zero tracks are
\* visible, makes it exactly the visible ids when some but not all visible
\* tracks are selected, and empties it when every visible track is selected.
C7_SelectAllVisible ==
    [][ClickSelectAll =>
        LET visible  == IdSet(tracks)
            selected == ElemSet(selectedTrackIds)
        IN  /\ visible = {} => selectedTrackIds' = selectedTrackIds
            /\ (visible # {} /\ ~(visible \subseteq selected))
                  => ElemSet(selectedTrackIds') = visible
            /\ (visible # {} /\ visible \subseteq selected)
                  => selectedTrackIds' = <<>>]_vars

\* C8: a confirmed bulk delete that empties the visible collection while
\* page > 1 leaves page exactly one below the page it was confirmed on, and
\* never below 1, however often confirm is activated and whatever happens
\* while the remote call is outstanding.
C8_BulkDeleteStepsBackOnePage ==
    [][\A i \in DOMAIN net :
          (/\ net[i].kind = "deleteMany" /\ net[i].empty /\ net[i].page > 1
           /\ (DeliverDeleteMany(i) \/ FailDeleteMany(i)))
          => (params'.page = net[i].page - 1 /\ params'.page >= 1)]_vars

\* C9: a confirmed single delete that removed the last visible track while
\* page > 1 has decremented page by exactly 1 when it completes.
C9_SingleDeleteStepsBackOnePage ==
    [][\A i \in DOMAIN net :
          (DeliverDelete(i) /\ net[i].empty /\ net[i].page > 1)
          => params'.page = net[i].page - 1]_vars

\* C10: a confirmed optimistic delete of id X removes exactly the one entity
\* with id X, keeps the others in order, decreases total by 1 floored at 0,
\* and does not decrease total when no entity with id X is in the collection.
C10_OptimisticDeleteOfOne ==
    [][ConfirmSingle =>
        LET X == confirmAction.id IN
        IF X \in IdSet(tracks)
        THEN /\ \E i \in DOMAIN tracks : tracks[i].id = X /\ tracks' = RemoveAt(tracks, i)
             /\ paginationMeta'.total = Max(0, paginationMeta.total - 1)
        ELSE /\ tracks' = tracks
             /\ paginationMeta'.total = paginationMeta.total]_vars

\* C11: a confirmed bulk delete with selection S removes exactly the entities
\* of the collection whose id is in S, |S /\ visible| of them, and decreases
\* total by that same count floored at 0, also when S holds ids that are not
\* in the loaded collection.
C11_BulkDeleteCountsVisible ==
    [][ConfirmBulk =>
        LET S == ElemSet(confirmAction.selectedTrackIds)
            n == Cardinality(S \cap IdSet(tracks))
        IN  /\ tracks' = SelectSeq(tracks, LAMBDA t : t.id \notin S)
            /\ paginationMeta'.total = Max(0, paginationMeta.total - n)]_vars

\* C12: when the remote bulk delete fails, the controller sets a non-null
\* error message and increments the refresh counter, which forces a reload.
C12_BulkDeleteFailureReported ==
    [][\A i \in DOMAIN net :
          FailDeleteMany(i) =>
              /\ error' # NoError
              /\ refreshTrigger' = refreshTrigger + 1]_vars

\* the list fetches that have not returned
ListFetches(n) == {i \in DOMAIN n : n[i].kind = "list"}

C14_ErrorShownAfterRollback ==
    [][\A i \in DOMAIN net :
          (DeliverList(i) /\ net[i].id # NoId /\ net[i].query = params) =>
              /\ tracks' = net[i].resp.data
              /\ error' # NoError]_vars

\* C15: create, edit and delete are optimistic: the step that sends the
\* create, update or delete request has already changed the visible
\* collection (the new record, the updated record, the removal).
C15_OptimisticCreateEditDelete ==
    [][/\ (SubmitCreate /\ Len(net') > Len(net)) =>
              (Len(tracks') = Len(tracks) + 1 /\ tracks'[1].title = createForm.title)
       /\ (SaveEdit /\ Len(net') > Len(net)) =>
              \A j \in DOMAIN tracks :
                  tracks[j].id = currentTrack.id =>
                      (tracks'[j].title = editForm.title
                       /\ (editForm.audioFile # NoFile => tracks'[j].audioFile))
       /\ (ConfirmSingle /\ confirmAction.id \in IdSet(tracks)) =>
              confirmAction.id \notin IdSet(tracks')]_vars

\* C16: whenever no list fetch is in flight and no fetch error is shown, the
\* collection and the pagination metadata are those of the response to the
\* fetch issued last, the one built from the current query parameters (the
\* stored tracks do not change in the runs this is checked on).
C16_LatestFetchKept ==
    (~ListInFlight /\ error = NoError) =>
        /\ tracks = ListResponse(params).data
        /\ paginationMeta.total = ListResponse(params).total

\* this step started exactly k new list fetches
NewFetches(k) ==
    Cardinality({i \in DOMAIN net' : net'[i].kind = "list" /\ net'[i].stage = "sent"})
        = Cardinality({i \in DOMAIN net : net[i].kind = "list" /\ net[i].stage = "sent"}) + k

\* C17: each parameter change, page change and retry starts exactly one list
\* fetch; so does each confirmed single delete (none when it is confirmed,
\* one when its remote call has returned) and each bulk delete that emptied
\* the page, when its remote call has returned.
C17_ExactlyOneFetch ==
    [][/\ ((\E np \in HeaderPartials : OnChangeParams(np))
              \/ ClickPrev \/ ClickNext \/ ClickRetry) => NewFetches(1)
       /\ ConfirmSingle => NewFetches(0)
       /\ \A i \in DOMAIN net :
              /\ DeliverDelete(i) => NewFetches(1)
              /\ (DeliverDeleteMany(i) /\ net[i].empty) => NewFetches(1)]_vars

\* C18: a bulk delete of every visible track confirmed on page 1 empties the
\* collection and the selection without touching the page or the refresh
\* counter; when the remote call has returned, the page is still unchanged
\* and the refresh counter is incremented by one, which starts one reload.
C18_BulkDeleteAllOnFirstPage ==
    [][/\ (ConfirmBulk /\ tracksToKeep(confirmAction) = <<>> /\ confirmAction.page = 1) =>
              /\ tracks' = <<>>
              /\ selectedTrackIds' = <<>>
              /\ params' = params
              /\ refreshTrigger' = refreshTrigger
       /\ \A i \in DOMAIN net :
              ((DeliverDeleteMany(i) \/ FailDeleteMany(i))
                  /\ net[i].empty /\ net[i].page = 1) =>
                  /\ params' = params
                  /\ selectedTrackIds' = selectedTrackIds
                  /\ refreshTrigger' = refreshTrigger + 1
                  /\ NewFetches(1)]_vars

\* C18 witness: both tracks of page 1 were bulk deleted, the call has
\* returned, and the forced reload of page 1 is under way
C18_AllDeletedOnFirstPage ==
    /\ params.page = 1
    /\ refreshTrigger = 1
    /\ DbIds = {3}
    /\ tracks = <<>>
    /\ selectedTrackIds = <<>>
    /\ ~isConfirmDialogOpen
    /\ \A i \in DOMAIN net : net[i].kind = "list"

\* what a failed fetch does: a non-null error, an empty collection, the
\* loading flag cleared, pagination metadata, selection and params untouched
FailedFetchOutcome ==
    /\ error' # NoError
    /\ tracks' = <<>>
    /\ ~isLoading'
    /\ UNCHANGED <<paginationMeta, selectedTrackIds, params>>

\* C19 as stated: a successful response replaces the collection and total and
\* totalPages with the values of the response and clears the loading flag; a
\* failed fetch has the outcome above.
C19_LoadTracksStoresResponse ==
    [][\A i \in DOMAIN net :
          /\ DeliverList(i) =>
                /\ tracks' = net[i].resp.data
                /\ paginationMeta' = [total      |-> net[i].resp.total,
                                      totalPages |-> net[i].resp.totalPages]
                /\ ~isLoading'
          /\ FailList(i) => FailedFetchOutcome]_vars

\* C19 amended: as above, except that totalPages becomes 1 when the response
\* reports 0 pages (an empty result).
C19_LoadTracksStoresResponseOrOnePage ==
    [][\A i \in DOMAIN net :
          /\ DeliverList(i) =>
                /\ tracks' = net[i].resp.data
                /\ paginationMeta' =
                      [total      |-> net[i].resp.total,
                       totalPages |-> IF net[i].resp.totalPages = 0 THEN 1
                                      ELSE net[i].resp.totalPages]
                /\ ~isLoading'
          /\ FailList(i) => FailedFetchOutcome]_vars

\* C19 witness: every stored track was deleted and the reload that followed
\* returned an empty result with 0 pages, which the controller holds as 1 page
C19_EmptyResultLoaded ==
    /\ db = {}
    /\ net = <<>>
    /\ ~isLoading
    /\ error = NoError
    /\ tracks = <<>>
    /\ refreshTrigger = 1
    /\ paginationMeta = [total |-> 0, totalPages |-> 1]

\* C20: after a play on id A, whatever the pointer was, the pointer is one id
\* or none; a second play on A leaves it cleared when it was not A before the
\* first play, and a play on any other id B leaves it equal to B.
C20_TogglePlay ==
    [][\A A \in Ids :
          ClickPlay(A) =>
              /\ playingTrackId' \in Ids \cup {NoId}
              /\ playingTrackId # A => handlePlayTrack(playingTrackId', A) = NoId
              /\ \A B \in Ids \ {A} : handlePlayTrack(playingTrackId', B) = B]_vars

\* C20 witness: track 3 was played and is the pointer, and track 1, another
\* track with an audio file, is displayed and can be played next
C20_PlayedThenAnotherPlayable ==
    /\ playingTrackId = 3
    /\ RowsShown
    /\ \E i \in DOMAIN tracks : tracks[i].id = 1 /\ tracks[i].audioFile

\* C21: when the HTTP request of an API client operation fails, the operation
\* fails for its caller, whose error handling runs and whose success path does
\* not: a failed list fetch sets the fetch error, a failed update sets the edit
\* dialog's error and leaves the collection alone, and a failed file delete
\* sets the edit dialog's error and does not mark the file as deleted.
C21_FailurePropagatedToCaller ==
    [][\A i \in DOMAIN net :
          /\ FailList(i) => error' = FetchError
          /\ (FailUpdate(i) /\ net[i].live) =>
                (editError' = RequestError /\ tracks' = tracks)
          /\ (FailDeleteFile(i) /\ net[i].live) =>
                (editError' # NoError /\ isDeletedFile' = isDeletedFile)]_vars

\* C22: a create submit whose draft has an empty title or an empty artist is
\* rejected locally: the validation error is set, no remote call is issued,
\* onCreate does not run (collection and total stay), and the dialog stays
\* open with the draft unchanged.
C22_EmptyTitleOrArtistRejected ==
    [][(SubmitCreate /\ (createForm.title = "" \/ createForm.artist = "")) =>
          /\ createError' = CreateRequired
          /\ net' = net
          /\ tracks' = tracks /\ paginationMeta' = paginationMeta
          /\ createModal' /\ createForm' = createForm
          /\ db' = db]_vars

\* C22 witness: a draft with a title and no artist was submitted and rejected;
\* nothing was sent and nothing was created
C22_DraftWithoutArtistRejected ==
    /\ createModal /\ createError = CreateRequired
    /\ createForm.title = "t1" /\ createForm.artist = "" /\ createForm.audioFile # NoFile
    /\ \A i \in DOMAIN net : net[i].kind \notin CreateKinds
    /\ nextId = 4

\* a file the dialogs are said to take: audio/mpeg or audio/wav, of at most
\* 10 MiB
Acceptable(f) ==
    /\ f.type = "audio/mpeg" \/ f.type = "audio/wav"
    /\ f.size <= 10 * 1024 * 1024

\* C23: in the create and in the edit dialog, picking a file that is not
\* audio/mpeg or audio/wav, or is larger than 10 MiB, leaves the whole draft
\* (its audio field included) unchanged and sets a validation error; picking
\* an acceptable file (one of exactly 10 MiB included) puts that file into the
\* draft's audio field, leaves the other fields and clears the error.
C23_FileValidation ==
    [][\A f \in Files :
          /\ ChooseCreateFile(f) =>
                IF Acceptable(f)
                THEN /\ createForm' = [createForm EXCEPT !.audioFile = f]
                     /\ createError' = NoError
                ELSE /\ createForm' = createForm
                     /\ createError' \in {FileTypeError, FileSizeError}
          /\ ChooseEditFile(f) =>
                IF Acceptable(f)
                THEN /\ editForm' = [editForm EXCEPT !.audioFile = f]
                     /\ editError' = NoError
                ELSE /\ editForm' = editForm
                     /\ editError' \in {FileTypeError, FileSizeError}]_vars

\* C23 witness: in the edit dialog a wav file of exactly 10 MiB is attached to
\* a draft whose title was cleared, and a later pick was rejected for its size
C23_TenMiBKeptAfterRejectedPick ==
    /\ editModal
    /\ editForm.audioFile = [type |-> "audio/wav", size |-> MaxFileSize]
    /\ editForm.title = ""
    /\ editError = FileSizeError

\* the number of calls of kind k that are outstanding in n
Calls(n, k) == Cardinality({i \in DOMAIN n : n[i].kind = k})

Replaced(ts, t) == [j \in DOMAIN ts |-> IF ts[j].id = t.id THEN t ELSE ts[j]]

PendingFileDeletes(n) ==
    {i \in DOMAIN n : n[i].kind = "deleteFile" /\ n[i].live}

\* C26: the delete of the current audio file is guarded by isDeletedFile: the
\* flag is set only when the remote file delete has succeeded; a press of the
\* button issues no second request while the dialog is open, neither while
\* the first one is still outstanding nor after it; and no Save attempt, a
\* Save rejected by the validation included, takes the flag back while the
\* dialog stays open.
C26_DeleteFileIssuedOnce ==
    [][/\ (~isDeletedFile /\ isDeletedFile') =>
            \E i \in DOMAIN net :
                /\ net[i].kind = "deleteFile" /\ net[i].stage = "served"
                /\ net' = RemoveAt(net, i)
       /\ (ClickDeleteFile /\ (isDeletedFile \/ PendingFileDeletes(net) # {})) =>
            net' = net
       /\ ((SaveEdit \/ \E i \in DOMAIN net : FailUpdate(i)) /\ editModal') =>
            isDeletedFile' = isDeletedFile]_vars

\* C27: when a create completes (onCreate(newTrack) is called), newTrack is
\* put at the front of the collection and the former entities follow in
\* their order, total grows by exactly 1, the creation dialog is closed, and
\* the query parameters, the selection, the playback pointer and totalPages
\* stay as they are.
C27_CreateCompleted ==
    [][\A i \in DOMAIN net :
          ((DeliverCreate(i) /\ net[i].form.audioFile = NoFile)
             \/ DeliverUploadNew(i)) =>
            /\ Len(tracks') = Len(tracks) + 1
            /\ tracks'[1] = net[i].track
            /\ \A j \in DOMAIN tracks : tracks'[j + 1] = tracks[j]
            /\ paginationMeta'.total = paginationMeta.total + 1
            /\ paginationMeta'.totalPages = paginationMeta.totalPages
            /\ ~createModal'
            /\ params' = params
            /\ selectedTrackIds' = selectedTrackIds
            /\ playingTrackId' = playingTrackId]_vars

\* C27 witness: on page 2, with track 3 selected and track 1 playing, the new
\* track 4 stands in front of track 3, the total is 4, the dialog is closed
C27_CreatedInFrontOnPageTwo ==
    /\ ~createModal
    /\ MapIds(tracks) = <<4, 3>>
    /\ paginationMeta = [total |-> 4, totalPages |-> 2]
    /\ params.page = 2
    /\ selectedTrackIds = <<3>>
    /\ playingTrackId = 1

\* C28: when an edit completes (onUpdate(updatedTrack) is called), the entity
\* whose id is updatedTrack.id is replaced by updatedTrack where it stands;
\* length, order and every other entity stay, and the whole collection stays
\* when no id matches; total, selection and query parameters stay, and the
\* edit dialog is closed.
C28_UpdateCompleted ==
    [][\A i \in DOMAIN net :
          ((DeliverUpdate(i) /\ net[i].form.audioFile = NoFile)
             \/ DeliverUploadEdit(i)) =>
            /\ Len(tracks') = Len(tracks)
            /\ \A j \in DOMAIN tracks :
                  tracks'[j] = IF tracks[j].id = net[i].track.id
                               THEN net[i].track ELSE tracks[j]
            /\ (net[i].track.id \notin IdSet(tracks)) => tracks' = tracks
            /\ paginationMeta' = paginationMeta
            /\ selectedTrackIds' = selectedTrackIds
            /\ params' = params
            /\ ~editModal']_vars

\* C28 witness: with both rows of page 1 selected, track 2 stands in its
\* second place with the title "t1" the edit gave it, after track 1; the
\* total is 3 and the dialog is closed
C28_UpdatedInPlace ==
    /\ ~editModal /\ net = <<>>
    /\ MapIds(tracks) = <<1, 2>>
    /\ tracks[1].title = "t0" /\ tracks[2].title = "t1"
    /\ paginationMeta.total = 3
    /\ selectedTrackIds = <<1, 2>>
    /\ params.page = 1

\* C29: Retry clears the error message and adds 1 to the refresh counter,
\* which starts exactly one list fetch with the current query parameters,
\* themselves unchanged; and no step of any operation lowers the refresh
\* counter.
C29_RetryReloads ==
    [][/\ ClickRetry =>
            /\ error' = NoError
            /\ refreshTrigger' = refreshTrigger + 1
            /\ params' = params
            /\ NewFetches(1)
            /\ net'[Len(net')].kind = "list"
            /\ net'[Len(net')].query = params
       /\ refreshTrigger' >= refreshTrigger]_vars

\* C29 witness: a fetch of page 2 failed and Retry was pressed: the message is
\* gone, the counter is 1, and a fetch of page 2 is on its way
C29_RetriedOnPageTwo ==
    /\ refreshTrigger = 1 /\ error = NoError /\ isLoading
    /\ tracks = <<>> /\ params.page = 2
    /\ Len(net) = 1 /\ net[1] = ListRequest(params)

C31_LoadingEventuallyCleared == isLoading ~> ~isLoading

\* C31 witness: a fetch of a later page has failed and the loading flag is
\* cleared, with nothing outstanding
C31_LoadingClearedAfterFailure ==
    /\ ~isLoading /\ error = FetchError /\ net = <<>> /\ params.page = 2

\* C32: whenever at least one list fetch is outstanding the loading flag is
\* set: the return of an earlier fetch does not clear the flag while a later
\* fetch is still outstanding.
C32_LoadingWhileFetching == ListInFlight => isLoading

\* C33: a confirmed bulk delete computes the surviving tracks from the
\* collection as it is at the confirmation: when a list fetch returned between
\* the press of the bulk-delete button and the press of Confirm, the
\* collection after the confirmation is the fetched collection without the
\* selected ids.
C33_BulkDeleteFromCurrentCollection ==
    [][ConfirmBulk =>
          tracks' = SelectSeq(tracks,
                       LAMBDA t : ~Includes(confirmAction.selectedTrackIds, t.id))]_vars

\* C34: between the opening of the delete confirmation and its closing the
\* confirmed delete takes effect at most once: the closure runs (one more
\* remote delete call, total decremented by one) only while no delete call
\* of this opening of the dialog is outstanding.
C34_ConfirmedDeleteAtMostOnce ==
    [][ConfirmSingle => Calls(net, "delete") = 0]_vars

\* C35: cancelling the delete confirmation (of one track or of the selected
\* tracks) closes the dialog and nothing else: no remote call is issued, and
\* the collection, total, selection, query parameters, error message and
\* refresh counter stay as they are.
C35_CancelOnlyClosesDialog ==
    [][ClickCancel =>
          /\ ~isConfirmDialogOpen'
          /\ net' = net
          /\ UNCHANGED <<tracks, paginationMeta, selectedTrackIds, params,
                         error, refreshTrigger>>]_vars

\* C35 witness: a bulk delete of two selected tracks was cancelled: the
\* dialog is closed, nothing was sent, counted down or reloaded
C35_BulkDeleteCancelled ==
    /\ ~isConfirmDialogOpen /\ confirmAction.kind = "bulk"
    /\ Len(selectedTrackIds) = 2 /\ Len(tracks) = 2
    /\ paginationMeta.total = 3 /\ Cardinality(db) = 3
    /\ refreshTrigger = 0 /\ net = <<>>

\* C36: in every reachable state no two tracks of the collection have the
\* same id.
C36_UniqueIds ==
    \A i, j \in DOMAIN tracks : tracks[i].id = tracks[j].id => i = j

\* C37: in every reachable state the collection holds at most params.limit
\* tracks.
C37_AtMostLimitTracks == Len(tracks) <= params.limit

\* C38: in every reachable state total is not negative, and whenever no list
\* fetch is in flight and no error is set, total is at least the number of
\* tracks in the collection.
C38_TotalCoversCollection ==
    /\ paginationMeta.total >= 0
    /\ (~ListInFlight /\ error = NoError) => paginationMeta.total >= Len(tracks)

\* the ids for which prev.includes(id) holds
Members(prev) == {prev[i] : i \in DOMAIN prev}

\* C39: the track checkbox and the select-all checkbox change the selection
\* only, the play button changes the playback pointer only: collection,
\* pagination metadata, query parameters, error message and refresh counter
\* stay, and no call is issued; the track checkbox of the same row pressed
\* once more gives back the selection membership there was.
C39_SelectionAndPlaybackFrame ==
    [][/\ ((\E id \in Ids : ToggleSelect(id)) \/ ClickSelectAll) =>
             UNCHANGED <<tracks, paginationMeta, params, error, refreshTrigger,
                         net, playingTrackId>>
       /\ (\E id \in Ids : ClickPlay(id)) =>
             UNCHANGED <<tracks, paginationMeta, params, error, refreshTrigger,
                         net, selectedTrackIds>>
       /\ \A id \in Ids :
             ToggleSelect(id) =>
                Members(handleSelectTrack(selectedTrackIds', id))
                   = Members(selectedTrackIds)]_vars

\* C39 witness: rows 2 and 1 were ticked one by one and track 1 plays, on the
\* first page as it was loaded
C39_TickedAndPlaying ==
    /\ selectedTrackIds = <<2, 1>> /\ playingTrackId = 1
    /\ MapIds(tracks) = <<1, 2>> /\ params.page = 1
    /\ refreshTrigger = 0 /\ net = <<>>


====
